---- MODULE Spec2Model ----
(***************************************************************************)
(* Model of slice_input (src/src/slice.rs): the streaming selection of a   *)
(* begin:end range of lines from a line source into a sink.                *)
(*                                                                         *)
(* One behaviour is one invocation of slice_input.  The for loop of        *)
(* slice.rs:79 is unfolded into the calls it makes: Take::next, the        *)
(* Lines::next calls made by Skip (whose items are dropped unexamined),    *)
(* the Lines::next call whose item reaches the loop body, the body, and    *)
(* then the trimming and flushing of slice.rs:98-111.                      *)
(***************************************************************************)
EXTENDS Integers, Sequences, FiniteSets, TLC

\* ---------------------------------------------------------------- bounds
MaxLines == 4
MaxAbs == 3

\* std::usize::MAX on a 16-bit target, the narrowest pointer width Rust has;
\* wider targets only enlarge it.
USIZE_MAX == 65535

\* isize::MAX and isize::MIN on the 16-bit target.
ISIZE_MAX == 32767
ISIZE_MIN == -32768

\* ------------------------------------------------------------ environment
\* Contents a line of the source can have.
LineTexts == {"a", "b"}
\* io::Error values a BufRead or a Write implementation can report.
IoErrors == {"EIO", "EPIPE"}

\* Option<isize>
None == <<>>
Some(v) == <<v>>
IsSome(o) == o # None
Unwrap(o) == o[1]

\* io::Result<String>, the item type of BufRead::lines()
OkLine(s) == [ok |-> TRUE, v |-> s]
ErrLine(e) == [ok |-> FALSE, v |-> e]
Items == {OkLine(s) : s \in LineTexts} \cup {ErrLine(e) : e \in IoErrors}

RECURSIVE SeqsUpTo(_, _)
SeqsUpTo(S, n) ==
    IF n = 0 THEN {<<>>}
    ELSE LET shorter == SeqsUpTo(S, n - 1)
         IN  shorter \cup {Append(q, x) : q \in {r \in shorter : Len(r) = n - 1}, x \in S}

Slices == [begin : (-MaxAbs)..MaxAbs,
           end : {None} \cup {Some(v) : v \in (-MaxAbs)..MaxAbs}]

\* ---------------------------------------------------------------- helpers
Min(a, b) == IF a <= b THEN a ELSE b

\* variant: the distance between a and b instead of a clamped difference
saturating_sub_AbsDiff(a, b) == IF a >= b THEN a - b ELSE b - a

\* usize::saturating_sub, usize::saturating_add
saturating_sub(a, b) == IF a >= b THEN a - b ELSE 0
saturating_add(a, b) == IF a >= USIZE_MAX - b THEN USIZE_MAX ELSE a + b

\* a - b on usize; Overflow stands for the subtraction going below zero
Overflow == -1
usize_sub(a, b) == IF a >= b THEN a - b ELSE Overflow

\* VecDeque::truncate(len): keeps the first len elements, no-op if len >= Len
truncate(q, len) == IF len >= Len(q) THEN q ELSE SubSeq(q, 1, len)

\* ------------------------------------------------------------------ state
VARIABLES
    slice,            \* the Slice argument
    input,            \* the items input.lines() will yield, in order
    pos,              \* number of items Lines::next has yielded so far
    out,              \* lines written to output, in order
    pc,               \* position of the invocation
    mode,             \* PrintMode: "Buf" or "Overflow"
    buf_size,
    skip_count,
    stop_count,
    skip_n,           \* Skip adapter: items still to drop
    take_n,           \* Take adapter: items still to yield
    buf,              \* VecDeque<String>
    lines_processed,
    result,           \* "running", "Ok", an io::Error, or "panic"
    failed_side,      \* which call produced the returned error: "none", "read", "write"
    raised,           \* the io::Error that call reported, "none" if no call failed
    read_failures,    \* number of Err items Lines::next has yielded so far
    in_buf,           \* Some(bytes) when the source is a byte slice, else None
    first_out,        \* Some(bytes) the sink got from an earlier invocation, else None
    slice_str,        \* Some(text) when the Slice comes from Slice::from_string
    parse_error,      \* the Err of Slice::from_string, "none" if none
    endless           \* TRUE when the source never reaches its end

vars == <<slice, input, pos, out, pc, mode, buf_size, skip_count, stop_count,
          skip_n, take_n, buf, lines_processed, result, failed_side, raised,
          read_failures, in_buf, first_out, slice_str, parse_error, endless>>

\* What no step of slice_input itself changes.
outer == <<in_buf, first_out, slice_str, parse_error, endless>>

\* Reads the model follows on a source that never ends.
MaxReads == 2 * MaxAbs + 1

\* The i-th item Lines::next yields: a source that never ends yields the
\* items of input over and over.
ItemAt(i) == IF endless THEN input[((i - 1) % Len(input)) + 1] ELSE input[i]

\* Lines::next has an item to yield (on a source that never ends, always;
\* the model follows it for MaxReads items).
HasItem == IF endless THEN pos < MaxReads ELSE pos < Len(input)

\* The line handed to the loop body: the item Lines::next yielded last.
line == ItemAt(pos).v

Init ==
    /\ slice \in Slices
    /\ input \in SeqsUpTo(Items, MaxLines)
    /\ pos = 0
    /\ out = <<>>
    /\ pc = "start"
    /\ mode = "Overflow"
    /\ buf_size = 0
    /\ skip_count = 0
    /\ stop_count = USIZE_MAX
    /\ skip_n = 0
    /\ take_n = 0
    /\ buf = <<>>
    /\ lines_processed = 0
    /\ result = "running"
    /\ failed_side = "none"
    /\ raised = "none"
    /\ read_failures = 0
    /\ in_buf = None
    /\ first_out = None
    /\ slice_str = None
    /\ parse_error = "none"
    /\ endless = FALSE

\* ------------------------------------------------- slice.rs:50-78, set-up
SkipCountOf(s) == IF s.begin > 0 THEN s.begin ELSE 0

\* variant: a non-negative end sets no read bound
StopCountOf_Unbounded(s) == USIZE_MAX

\* variant: end taken as a count of lines after the skipped prefix
StopCountOf_NoSkip(s) ==
    IF IsSome(s.end) /\ Unwrap(s.end) >= 0 THEN Unwrap(s.end) ELSE USIZE_MAX

StopCountOf(s) ==
    IF IsSome(s.end) /\ Unwrap(s.end) >= 0
    THEN saturating_sub(Unwrap(s.end), SkipCountOf(s))
    ELSE USIZE_MAX

\* variant: the window for a negative end is one line short
BufSizeOf_OffByOne(s) ==
    IF s.begin < 0 THEN -s.begin
    ELSE IF IsSome(s.end) /\ Unwrap(s.end) < 0 THEN -Unwrap(s.end) - 1
    ELSE 0

\* variant: a negative end sets no window when begin >= 0
BufSizeOf_IgnoreEnd(s) == IF s.begin < 0 THEN -s.begin ELSE 0

BufSizeOf(s) ==
    IF s.begin < 0 THEN -s.begin
    ELSE IF IsSome(s.end) /\ Unwrap(s.end) < 0 THEN -Unwrap(s.end)
    ELSE 0

\* variant: Buf mode only when there is no end to trim to
ModeOf_BufWhenEndAbsent(s) == IF s.begin < 0 /\ ~IsSome(s.end) THEN "Buf" ELSE "Overflow"

\* variant: the mode is never switched to Buf
ModeOf_AlwaysOverflow(s) == "Overflow"

ModeOf(s) == IF s.begin < 0 THEN "Buf" ELSE "Overflow"

\* slice.rs:66,72: `-x as usize` negates in isize before the cast.  For
\* x = isize::MIN the negation overflows: a build with overflow checks
\* panics, one without wraps to isize::MIN, which the cast turns into 2^15,
\* the value -x has here.
NegOverflows(s) == s.begin = ISIZE_MIN \/ (IsSome(s.end) /\ Unwrap(s.end) = ISIZE_MIN)

\* size_of::<String>() on the 16-bit target: pointer, capacity, length.
STRING_SIZE == 6

\* slice.rs:76: VecDeque::reserve panics ("capacity overflow") when the
\* buffer would exceed isize::MAX bytes.  (A smaller request the allocator
\* cannot serve aborts the process; the model takes memory to suffice.)
ReserveFails(n) == n * STRING_SIZE > ISIZE_MAX

Setup ==
    /\ pc = "start"
    /\ \E overflow_checks \in IF NegOverflows(slice) THEN BOOLEAN ELSE {FALSE} :
          IF overflow_checks
          THEN /\ result' = "negate_overflow"
               /\ pc' = "done"
               /\ UNCHANGED <<skip_count, stop_count, buf_size, mode, skip_n, take_n>>
          ELSE IF ReserveFails(BufSizeOf(slice))
          THEN /\ result' = "capacity_overflow"
               /\ pc' = "done"
               /\ skip_count' = SkipCountOf(slice)
               /\ stop_count' = StopCountOf(slice)
               /\ buf_size' = BufSizeOf(slice)
               /\ mode' = ModeOf(slice)
               /\ UNCHANGED <<skip_n, take_n>>
          ELSE /\ skip_count' = SkipCountOf(slice)
               /\ stop_count' = StopCountOf(slice)
               /\ buf_size' = BufSizeOf(slice)
               /\ mode' = ModeOf(slice)
               /\ skip_n' = SkipCountOf(slice)
               /\ take_n' = saturating_add(StopCountOf(slice), BufSizeOf(slice))
               /\ pc' = "loop"
               /\ result' = result
    /\ UNCHANGED <<slice, input, pos, out, buf, lines_processed,
                   failed_side, raised, read_failures, outer>>

\* ----------------------------------------- slice.rs:79, the loop iterator
\* Take::next with items left: count one and ask Skip for an item.
TakeNext ==
    /\ pc = "loop"
    /\ take_n # 0
    /\ take_n' = take_n - 1
    /\ pc' = "next"
    /\ UNCHANGED <<slice, input, pos, out, mode, buf_size, skip_count, stop_count,
                   skip_n, buf, lines_processed, result, failed_side, raised, read_failures, outer>>

\* Take::next with no items left: the loop ends without touching the source.
TakeDone ==
    /\ pc = "loop"
    /\ take_n = 0
    /\ pc' = "trim"
    /\ UNCHANGED <<slice, input, pos, out, mode, buf_size, skip_count, stop_count,
                   skip_n, take_n, buf, lines_processed, result, failed_side, raised,
                   read_failures, outer>>

\* Skip::next -> Iterator::nth: an item of the skipped prefix is taken from
\* Lines::next and dropped, whether it is Ok(line) or Err(e).
SkipItem ==
    /\ pc = "next"
    /\ skip_n > 0
    /\ HasItem
    /\ pos' = pos + 1
    /\ skip_n' = skip_n - 1
    /\ read_failures' = IF ItemAt(pos + 1).ok THEN read_failures ELSE read_failures + 1
    /\ UNCHANGED <<slice, input, out, pc, mode, buf_size, skip_count, stop_count,
                   take_n, buf, lines_processed, result, failed_side, raised, outer>>

\* Lines::next returns None (end of the source), in the skipped prefix or
\* after it: the loop ends.
ReadEof ==
    /\ pc = "next"
    /\ ~endless
    /\ pos = Len(input)
    /\ pc' = "trim"
    /\ UNCHANGED <<slice, input, pos, out, mode, buf_size, skip_count, stop_count,
                   skip_n, take_n, buf, lines_processed, result, failed_side, raised,
                   read_failures, outer>>

\* slice.rs:80 with Ok(line): the body runs on it.
ReadLine ==
    /\ pc = "next"
    /\ skip_n = 0
    /\ HasItem
    /\ ItemAt(pos + 1).ok
    /\ pos' = pos + 1
    /\ pc' = "body"
    /\ UNCHANGED <<slice, input, out, mode, buf_size, skip_count, stop_count,
                   skip_n, take_n, buf, lines_processed, result, failed_side, raised,
                   read_failures, outer>>

\* variant: the error is replaced by a fixed one
ErrReturned_Fixed(e) == "EIO"

\* `?` on an Err(e) of io::Result: the function returns Err(e) itself
\* (From<io::Error> for io::Error is the identity).
ErrReturned(e) == e

\* slice.rs:80 with Err(e): `?` returns the error.
ReadErr ==
    /\ pc = "next"
    /\ skip_n = 0
    /\ HasItem
    /\ ~ItemAt(pos + 1).ok
    /\ pos' = pos + 1
    /\ read_failures' = read_failures + 1
    /\ raised' = ItemAt(pos + 1).v
    /\ result' = ErrReturned(ItemAt(pos + 1).v)
    /\ failed_side' = "read"
    /\ pc' = "done"
    /\ UNCHANGED <<slice, input, out, mode, buf_size, skip_count, stop_count,
                   skip_n, take_n, buf, lines_processed, outer>>

\* variant: the result of writeln! is dropped and the loop goes on
AfterWriteErr_Ignored(cont) == cont

\* `?` on a failed writeln!: control leaves the function instead of going on
\* to `cont`.
AfterWriteErr(cont) == "done"

\* writeln!(output, "{}", s)?  followed by `cont`: the sink takes the line, or
\* reports an error and the function returns it.
WriteLn(s, cont) ==
    \/ /\ out' = Append(out, s)
       /\ pc' = cont
       /\ UNCHANGED <<result, failed_side, raised>>
    \/ \E e \in IoErrors :
          /\ out' = out
          /\ pc' = AfterWriteErr(cont)
          /\ raised' = e
          /\ result' = ErrReturned(e)
          /\ failed_side' = "write"

\* ------------------------------------------- slice.rs:82-95, the loop body
\* variant: the front is popped only once the FIFO is over capacity
Evicts_Late(q, size) == Len(q) > size

\* slice.rs:85: the FIFO is at capacity, its front is popped before the push
Evicts(q, size) == Len(q) = size

\* buf_size == 0: the line is written at once.
BodyDirect ==
    /\ pc = "body"
    /\ buf_size = 0
    /\ WriteLn(line, "loop")
    /\ lines_processed' = IF pc' = "loop" THEN lines_processed + 1 ELSE lines_processed
    /\ UNCHANGED <<slice, input, pos, mode, buf_size, skip_count, stop_count,
                   skip_n, take_n, buf, read_failures, outer>>

\* buf_size > 0, FIFO at capacity, PrintMode::Overflow: the popped front is
\* written, then the line is pushed.
BodyEvictWrite ==
    /\ pc = "body"
    /\ buf_size # 0
    /\ Evicts(buf, buf_size)
    /\ mode = "Overflow"
    /\ WriteLn(Head(buf), "loop")
    /\ buf' = IF pc' = "loop" THEN Append(Tail(buf), line) ELSE Tail(buf)
    /\ lines_processed' = IF pc' = "loop" THEN lines_processed + 1 ELSE lines_processed
    /\ UNCHANGED <<slice, input, pos, mode, buf_size, skip_count, stop_count,
                   skip_n, take_n, read_failures, outer>>

\* variant: the newest line is dropped instead of the oldest
BodyEvictDrop_PopBack ==
    /\ pc = "body"
    /\ buf_size # 0
    /\ Evicts(buf, buf_size)
    /\ mode = "Buf"
    /\ buf' = Append(SubSeq(buf, 1, Len(buf) - 1), line)
    /\ lines_processed' = lines_processed + 1
    /\ pc' = "loop"
    /\ UNCHANGED <<slice, input, pos, out, mode, buf_size, skip_count, stop_count,
                   skip_n, take_n, result, failed_side, raised, read_failures, outer>>

\* buf_size > 0, FIFO at capacity, PrintMode::Buf: the popped front is
\* dropped, then the line is pushed.
BodyEvictDrop ==
    /\ pc = "body"
    /\ buf_size # 0
    /\ Evicts(buf, buf_size)
    /\ mode = "Buf"
    /\ buf' = Append(Tail(buf), line)
    /\ lines_processed' = lines_processed + 1
    /\ pc' = "loop"
    /\ UNCHANGED <<slice, input, pos, out, mode, buf_size, skip_count, stop_count,
                   skip_n, take_n, result, failed_side, raised, read_failures, outer>>

\* buf_size > 0, FIFO below capacity: the line is pushed.
BodyPush ==
    /\ pc = "body"
    /\ buf_size # 0
    /\ ~Evicts(buf, buf_size)
    /\ buf' = Append(buf, line)
    /\ lines_processed' = lines_processed + 1
    /\ pc' = "loop"
    /\ UNCHANGED <<slice, input, pos, out, mode, buf_size, skip_count, stop_count,
                   skip_n, take_n, result, failed_side, raised, read_failures, outer>>

\* --------------------------------------- slice.rs:98-113, after the loop
\* variant: a non-negative end trims nothing
TrimLen_NoAbsTrim(s, q, lp, sc) ==
    IF IsSome(s.end) /\ Unwrap(s.end) < 0
    THEN usize_sub(Len(q), Min(Len(q), -Unwrap(s.end)))
    ELSE Len(q)

\* variant: a negative end trims one line too few
TrimLen_OffByOne(s, q, lp, sc) ==
    IF IsSome(s.end)
    THEN IF Unwrap(s.end) < 0
         THEN usize_sub(Len(q), Min(Len(q), -Unwrap(s.end) - 1))
         ELSE usize_sub(Len(q), Min(Len(q), saturating_sub(lp, sc)))
    ELSE Len(q)

\* variant: the drop counts are not clamped to the FIFO length
TrimLen_Unclamped(s, q, lp, sc) ==
    IF IsSome(s.end)
    THEN IF Unwrap(s.end) < 0
         THEN usize_sub(Len(q), -Unwrap(s.end))
         ELSE usize_sub(Len(q), saturating_sub(lp, sc))
    ELSE Len(q)

\* slice.rs:99-105: the length the FIFO is truncated to.
TrimLen(s, q, lp, sc) ==
    IF IsSome(s.end)
    THEN IF Unwrap(s.end) < 0
         THEN usize_sub(Len(q), Min(Len(q), -Unwrap(s.end)))
         ELSE usize_sub(Len(q), Min(Len(q), saturating_sub(lp, sc)))
    ELSE Len(q)

\* PrintMode::Buf: the FIFO is trimmed at its back, then flushed.
TrimBuf ==
    /\ pc = "trim"
    /\ mode = "Buf"
    /\ LET n == TrimLen(slice, buf, lines_processed, stop_count)
       IN  IF n = Overflow
           THEN /\ result' = "panic"
                /\ pc' = "done"
                /\ buf' = buf
           ELSE /\ buf' = truncate(buf, n)
                /\ pc' = "flush"
                /\ result' = result
    /\ UNCHANGED <<slice, input, pos, out, mode, buf_size, skip_count, stop_count,
                   skip_n, take_n, lines_processed, failed_side, raised, read_failures, outer>>

\* PrintMode::Overflow: what is left in the FIFO is not written; Ok(()).
\* (buf keeps its last contents here; the function drops it on return.)
FinishOverflow ==
    /\ pc = "trim"
    /\ mode = "Overflow"
    /\ result' = "Ok"
    /\ pc' = "done"
    /\ UNCHANGED <<slice, input, pos, out, mode, buf_size, skip_count, stop_count,
                   skip_n, take_n, buf, lines_processed, failed_side, raised, read_failures, outer>>

\* slice.rs:108-110: one iteration of `for line in buf`.
FlushLine ==
    /\ pc = "flush"
    /\ buf # <<>>
    /\ WriteLn(Head(buf), "flush")
    /\ buf' = Tail(buf)
    /\ UNCHANGED <<slice, input, pos, mode, buf_size, skip_count, stop_count,
                   skip_n, take_n, lines_processed, read_failures, outer>>

\* slice.rs:113 after the flush loop: Ok(()).
FlushDone ==
    /\ pc = "flush"
    /\ buf = <<>>
    /\ result' = "Ok"
    /\ pc' = "done"
    /\ UNCHANGED <<slice, input, pos, out, mode, buf_size, skip_count, stop_count,
                   skip_n, take_n, buf, lines_processed, failed_side, raised, read_failures, outer>>

Next ==
    \/ Setup
    \/ TakeNext
    \/ TakeDone
    \/ SkipItem
    \/ ReadEof
    \/ ReadLine
    \/ ReadErr
    \/ BodyDirect
    \/ BodyEvictWrite
    \/ BodyEvictDrop
    \/ BodyPush
    \/ TrimBuf
    \/ FinishOverflow
    \/ FlushLine
    \/ FlushDone

Spec == Init /\ [][Next]_vars

\* ------------------------------------ the source as a byte slice (&[u8])
\* slice.rs:220: the tests hand slice_input a byte slice; input.lines()
\* (slice.rs:79) then cuts it into items as BufRead::read_line and
\* Lines::next do.
MaxBytes == 4

\* A byte of text, the two line-break bytes, and a byte no UTF-8 text holds.
Bytes == {"a", "CR", "LF", "xFF"}

\* The error read_line reports for bytes that are not UTF-8.
InvalidData == "InvalidData"

\* BufRead::read_line: the bytes up to and including the first LF, or all of
\* them when there is none.
ReadUntilLF(b) ==
    LET lfs == {i \in 1..Len(b) : b[i] = "LF"}
    IN  IF lfs = {} THEN b
        ELSE SubSeq(b, 1, CHOOSE i \in lfs : \A j \in lfs : i <= j)

ValidUtf8(chunk) == \A i \in 1..Len(chunk) : chunk[i] # "xFF"

\* variant: only the LF is removed
StripEol_KeepCR(chunk) ==
    IF chunk # <<>> /\ chunk[Len(chunk)] = "LF"
    THEN SubSeq(chunk, 1, Len(chunk) - 1)
    ELSE chunk

\* Lines::next: a trailing LF is removed, and then a CR if one is now last.
StripEol(chunk) ==
    IF chunk # <<>> /\ chunk[Len(chunk)] = "LF"
    THEN LET noLf == SubSeq(chunk, 1, Len(chunk) - 1)
         IN  IF noLf # <<>> /\ noLf[Len(noLf)] = "CR"
             THEN SubSeq(noLf, 1, Len(noLf) - 1)
             ELSE noLf
    ELSE chunk

\* The items input.lines() yields over the bytes b.
RECURSIVE LinesOf(_)
LinesOf(b) ==
    IF b = <<>> THEN <<>>
    ELSE LET chunk == ReadUntilLF(b)
             item == IF ValidUtf8(chunk) THEN OkLine(StripEol(chunk))
                     ELSE ErrLine(InvalidData)
         IN  <<item>> \o LinesOf(SubSeq(b, Len(chunk) + 1, Len(b)))

\* The bytes writeln!(output, "{}", line) has put in the sink for the lines
\* written so far: each line and one LF.
RECURSIVE OutBytes(_)
OutBytes(ls) ==
    IF ls = <<>> THEN <<>> ELSE Head(ls) \o <<"LF">> \o OutBytes(Tail(ls))

\* main.rs:48: the Slice used when no expression is given, the same as "0:".
WholeInput == [begin |-> 0, end |-> None]

InitBytes ==
    /\ slice \in Slices
    /\ in_buf \in {Some(b) : b \in SeqsUpTo(Bytes, MaxBytes)}
    /\ input = LinesOf(Unwrap(in_buf))
    /\ pos = 0
    /\ out = <<>>
    /\ pc = "start"
    /\ mode = "Overflow"
    /\ buf_size = 0
    /\ skip_count = 0
    /\ stop_count = USIZE_MAX
    /\ skip_n = 0
    /\ take_n = 0
    /\ buf = <<>>
    /\ lines_processed = 0
    /\ result = "running"
    /\ failed_side = "none"
    /\ raised = "none"
    /\ read_failures = 0
    /\ first_out = None
    /\ slice_str = None
    /\ parse_error = "none"
    /\ endless = FALSE

\* A second invocation, as check_slice (slice.rs:218-226) makes them: the
\* bytes the sink got from a successful first one are the source of a new
\* slice_input call with the Slice "0:".
Reslice ==
    /\ pc = "done"
    /\ result = "Ok"
    /\ IsSome(in_buf)
    /\ first_out = None
    /\ first_out' = Some(OutBytes(out))
    /\ in_buf' = Some(OutBytes(out))
    /\ input' = LinesOf(OutBytes(out))
    /\ slice' = WholeInput
    /\ pos' = 0
    /\ out' = <<>>
    /\ pc' = "start"
    /\ mode' = "Overflow"
    /\ buf_size' = 0
    /\ skip_count' = 0
    /\ stop_count' = USIZE_MAX
    /\ skip_n' = 0
    /\ take_n' = 0
    /\ buf' = <<>>
    /\ lines_processed' = 0
    /\ result' = "running"
    /\ UNCHANGED <<failed_side, raised, read_failures, slice_str, parse_error, endless>>

NextBytes ==
    \/ Next
    \/ Reslice

SpecBytes == InitBytes /\ [][NextBytes]_vars

\* ------------------------------------------ slice.rs:13-37, from_string
MaxText == 6

\* Characters of a slice expression: the separator, the signs, two digits
\* and a character that is none of these.
Chars == {":", "-", "+", "1", "9", "x"}

DigitValue(c) == IF c = "1" THEN 1 ELSE 9
IsDigit(c) == c \in {"1", "9"}

\* str::split(':'): the pieces between the separators, one more than there
\* are separators.
RECURSIVE Split(_)
Split(text) ==
    LET colons == {i \in 1..Len(text) : text[i] = ":"}
    IN  IF colons = {} THEN <<text>>
        ELSE LET i == CHOOSE k \in colons : \A j \in colons : k <= j
             IN  <<SubSeq(text, 1, i - 1)>> \o Split(SubSeq(text, i + 1, Len(text)))

\* The digits of str::parse::<isize>, accumulated left to right.
RECURSIVE Accumulate(_, _)
Accumulate(digits, acc) ==
    IF digits = <<>> THEN acc
    ELSE Accumulate(Tail(digits), acc * 10 + DigitValue(Head(digits)))

\* variant: a leading '+' is not accepted
ParseIsize_NoPlus(part) ==
    LET neg == part # <<>> /\ part[1] = "-"
        digits == IF neg THEN Tail(part) ELSE part
        v == IF neg THEN -Accumulate(digits, 0) ELSE Accumulate(digits, 0)
    IN  IF digits = <<>> \/ \E i \in 1..Len(digits) : ~IsDigit(digits[i])
        THEN [ok |-> FALSE, v |-> 0]
        ELSE IF v > ISIZE_MAX \/ v < ISIZE_MIN
             THEN [ok |-> FALSE, v |-> 0]
             ELSE [ok |-> TRUE, v |-> v]

\* str::parse::<isize>: an optional '+' or '-', then one or more digits, the
\* value within isize; anything else is an error.
ParseIsize(part) ==
    LET signed == part # <<>> /\ part[1] \in {"-", "+"}
        neg == part # <<>> /\ part[1] = "-"
        digits == IF signed THEN Tail(part) ELSE part
        v == IF neg THEN -Accumulate(digits, 0) ELSE Accumulate(digits, 0)
    IN  IF digits = <<>> \/ \E i \in 1..Len(digits) : ~IsDigit(digits[i])
        THEN [ok |-> FALSE, v |-> 0]
        ELSE IF v > ISIZE_MAX \/ v < ISIZE_MIN
             THEN [ok |-> FALSE, v |-> 0]
             ELSE [ok |-> TRUE, v |-> v]

ParseOk(sl) == [err |-> "none", slice |-> sl]
ParseErr(msg) == [err |-> msg, slice |-> WholeInput]

\* variant: the ending point is parsed before the starting point
from_string_EndFirst(text) ==
    LET parts == Split(text)
    IN  IF Len(parts) # 2 THEN ParseErr("Invalid slice")
        ELSE IF parts[1] = <<>> /\ parts[2] = <<>> THEN ParseErr("Slice cannot be empty")
        ELSE IF parts[2] # <<>> /\ ~ParseIsize(parts[2]).ok
             THEN ParseErr("Invalid slice ending point")
        ELSE IF parts[1] # <<>> /\ ~ParseIsize(parts[1]).ok
             THEN ParseErr("Invalid slice starting point")
        ELSE ParseOk([begin |-> IF parts[1] # <<>> THEN ParseIsize(parts[1]).v ELSE 0,
                      end |-> IF parts[2] # <<>> THEN Some(ParseIsize(parts[2]).v)
                              ELSE None])

\* Slice::from_string
from_string(text) ==
    LET parts == Split(text)
    IN  IF Len(parts) # 2 THEN ParseErr("Invalid slice")
        ELSE IF parts[1] = <<>> /\ parts[2] = <<>> THEN ParseErr("Slice cannot be empty")
        ELSE IF parts[1] # <<>> /\ ~ParseIsize(parts[1]).ok
             THEN ParseErr("Invalid slice starting point")
        ELSE IF parts[2] # <<>> /\ ~ParseIsize(parts[2]).ok
             THEN ParseErr("Invalid slice ending point")
        ELSE ParseOk([begin |-> IF parts[1] # <<>> THEN ParseIsize(parts[1]).v ELSE 0,
                      end |-> IF parts[2] # <<>> THEN Some(ParseIsize(parts[2]).v)
                              ELSE None])

InitParse ==
    /\ slice_str \in {Some(t) : t \in SeqsUpTo(Chars, MaxText)}
    /\ slice = WholeInput
    /\ parse_error = "none"
    /\ pc = "parse"
    /\ input = <<>>
    /\ pos = 0
    /\ out = <<>>
    /\ mode = "Overflow"
    /\ buf_size = 0
    /\ skip_count = 0
    /\ stop_count = USIZE_MAX
    /\ skip_n = 0
    /\ take_n = 0
    /\ buf = <<>>
    /\ lines_processed = 0
    /\ result = "running"
    /\ failed_side = "none"
    /\ raised = "none"
    /\ read_failures = 0
    /\ in_buf = None
    /\ first_out = None
    /\ endless = FALSE

\* main.rs:64-67: the expression is parsed; the Slice replaces the default
\* one, or the error is reported and nothing is read or written.
FromString ==
    /\ pc = "parse"
    /\ LET r == from_string(Unwrap(slice_str))
       IN  /\ slice' = r.slice
           /\ parse_error' = r.err
    /\ pc' = "parsed"
    /\ UNCHANGED <<input, pos, out, mode, buf_size, skip_count, stop_count, skip_n,
                   take_n, buf, lines_processed, result, failed_side, raised,
                   read_failures, in_buf, first_out, slice_str, endless>>

NextParse == FromString

SpecParse == InitParse /\ [][NextParse]_vars

\* ------------------------------------------- sources that never end
\* Longest run of items a never-ending source repeats.
MaxPeriod == 2

InitEndless ==
    /\ slice \in Slices
    /\ endless \in BOOLEAN
    /\ input \in IF endless
                 THEN SeqsUpTo(Items, MaxPeriod) \ {<<>>}
                 ELSE SeqsUpTo(Items, MaxLines)
    /\ pos = 0
    /\ out = <<>>
    /\ pc = "start"
    /\ mode = "Overflow"
    /\ buf_size = 0
    /\ skip_count = 0
    /\ stop_count = USIZE_MAX
    /\ skip_n = 0
    /\ take_n = 0
    /\ buf = <<>>
    /\ lines_processed = 0
    /\ result = "running"
    /\ failed_side = "none"
    /\ raised = "none"
    /\ read_failures = 0
    /\ in_buf = None
    /\ first_out = None
    /\ slice_str = None
    /\ parse_error = "none"

\* slice_input is one sequential call: whatever step is possible is taken.
SpecEndless == InitEndless /\ [][Next]_vars /\ WF_vars(Next)

\* ------------------------------------- boundaries at the ends of isize
MaxWideLines == 2

Extremes == {ISIZE_MIN, ISIZE_MIN + 1, -1, 0, 1, ISIZE_MAX}

InitWide ==
    /\ slice \in [begin : Extremes, end : {None} \cup {Some(v) : v \in Extremes}]
    /\ input \in SeqsUpTo(Items, MaxWideLines)
    /\ pos = 0
    /\ out = <<>>
    /\ pc = "start"
    /\ mode = "Overflow"
    /\ buf_size = 0
    /\ skip_count = 0
    /\ stop_count = USIZE_MAX
    /\ skip_n = 0
    /\ take_n = 0
    /\ buf = <<>>
    /\ lines_processed = 0
    /\ result = "running"
    /\ failed_side = "none"
    /\ raised = "none"
    /\ read_failures = 0
    /\ in_buf = None
    /\ first_out = None
    /\ slice_str = None
    /\ parse_error = "none"
    /\ endless = FALSE

SpecWide == InitWide /\ [][Next]_vars

TypeOK ==
    /\ pos \in 0..(IF endless THEN MaxReads ELSE Len(input))
    /\ pc \in {"parse", "parsed", "start", "loop", "next", "body", "trim", "flush", "done"}
    /\ mode \in {"Buf", "Overflow"}
    /\ result \in {"running", "Ok", "panic", "negate_overflow", "capacity_overflow",
                  InvalidData} \cup IoErrors
    /\ failed_side \in {"none", "read", "write"}
    /\ raised \in {"none", InvalidData} \cup IoErrors
    /\ (pc = "done") = (result # "running")

\* ======================================================= reference slicing
Max(a, b) == IF a >= b THEN a ELSE b

\* The items of the source as the texts they carry, position by position.
Texts(items) == [i \in 1..Len(items) |-> items[i].v]

\* Elements at 0-based indices [b, e) of q; empty when e <= b.
Range(q, b, e) == IF e <= b THEN <<>> ELSE SubSeq(q, b + 1, e)

ResolvedBegin(s, n) == IF s.begin >= 0 THEN s.begin ELSE Max(0, n + s.begin)

ResolvedEnd(s, n) ==
    IF ~IsSome(s.end) THEN n
    ELSE IF Unwrap(s.end) >= 0 THEN Min(Unwrap(s.end), n)
    ELSE Max(0, n + Unwrap(s.end))

\* What slicing the fully materialized input selects.
Selected(s, items) ==
    Range(Texts(items), ResolvedBegin(s, Len(items)), ResolvedEnd(s, Len(items)))

IsPrefix(p, q) == Len(p) <= Len(q) /\ p = SubSeq(q, 1, Len(p))

Abs(x) == IF x < 0 THEN -x ELSE x

N == Len(input)
Succeeded == pc = "done" /\ result = "Ok"

\* ================================================================== claims

\* C1: for every Slice and every finite input of N lines, a run that returns
\* Ok has written exactly the lines at indices [b, e) of the input, in order
\* and each once, with b and e the begin and end resolved against N; nothing
\* when e <= b.
C1_MaterializeThenSlice == Succeeded => out = Selected(slice, input)

C1_Witness ==
    /\ Succeeded
    /\ slice.begin = 1
    /\ slice.end = Some(3)
    /\ N = MaxLines
    /\ Len(out) = 2

\* C2: with begin < 0 and end >= 0, a run that returns Ok has written exactly
\* the lines at [max(0, N - |begin|), min(end, N)), after consuming the whole
\* source when N <= end + |begin| and only end + |begin| items otherwise.
C2_NegBeginPosEnd ==
    (Succeeded /\ slice.begin < 0 /\ IsSome(slice.end) /\ Unwrap(slice.end) >= 0)
    => /\ out = Range(Texts(input), Max(0, N - Abs(slice.begin)),
                      Min(Unwrap(slice.end), N))
       /\ pos = Min(N, Unwrap(slice.end) + Abs(slice.begin))

C2_Witness ==
    /\ Succeeded
    /\ slice.begin = -3
    /\ slice.end = Some(2)
    /\ N = 4
    /\ Len(out) = 1

\* C3: with begin < 0 and end < 0, a run that returns Ok has written exactly
\* the lines at [max(0, N - |begin|), max(0, N - |end|)), and nothing at all
\* when |end| >= |begin|.
C3_BothNegative ==
    (Succeeded /\ slice.begin < 0 /\ IsSome(slice.end) /\ Unwrap(slice.end) < 0)
    => /\ out = Range(Texts(input), Max(0, N - Abs(slice.begin)),
                      Max(0, N - Abs(Unwrap(slice.end))))
       /\ (Abs(Unwrap(slice.end)) >= Abs(slice.begin) => out = <<>>)

C3_Witness ==
    /\ Succeeded
    /\ slice.begin = -2
    /\ slice.end = Some(-2)
    /\ N > 2
    /\ lines_processed = N

\* C4: with begin >= 0 and end < 0, a run that returns Ok has written exactly
\* the lines at [begin, N - |end|) (nothing when |end| >= N - begin), and the
\* FIFO is left holding the remaining lines from begin on, which are the
\* excluded trailing lines and were not written.
C4_PosBeginNegEnd ==
    (Succeeded /\ slice.begin >= 0 /\ IsSome(slice.end) /\ Unwrap(slice.end) < 0)
    => /\ out = Range(Texts(input), slice.begin, N - Abs(Unwrap(slice.end)))
       /\ buf = Range(Texts(input), Max(slice.begin, N - Abs(Unwrap(slice.end))), N)
       /\ (Abs(Unwrap(slice.end)) >= N - slice.begin => out = <<>>)

C4_Witness ==
    /\ Succeeded
    /\ slice.begin = 1
    /\ slice.end = Some(-1)
    /\ N = 4
    /\ Len(out) = 2
    /\ Len(buf) = 1

\* C5: with begin < 0 and end absent, a run that returns Ok has written
\* exactly the last min(|begin|, N) lines of the input, in input order.
C5_LastLines ==
    (Succeeded /\ slice.begin < 0 /\ ~IsSome(slice.end))
    => out = Range(Texts(input), N - Min(Abs(slice.begin), N), N)

C5_Witness ==
    /\ Succeeded
    /\ slice.begin = -2
    /\ ~IsSome(slice.end)
    /\ N = 4
    /\ Len(out) = 2

\* C6: when the resolved window over the N-line input is empty, nothing is
\* ever written, no write fails, no length computation goes below zero, and
\* unless a read failed the invocation returns Ok.
EmptyWindow == ResolvedEnd(slice, N) <= ResolvedBegin(slice, N)

C6_EmptyWindowIsOk ==
    EmptyWindow
    => /\ out = <<>>
       /\ failed_side # "write"
       /\ result # "panic"
       /\ (pc = "done" /\ failed_side = "none" => result = "Ok")

C6_Witness ==
    /\ Succeeded
    /\ slice.begin = -1
    /\ slice.end = Some(-3)
    /\ N >= 2
    /\ lines_processed = N

\* C7: in every reachable state the FIFO holds at most window_size lines,
\* window_size being |begin| if begin < 0, else |end| if end < 0, else 0,
\* whatever the number of input lines.
WindowSize(s) ==
    IF s.begin < 0 THEN Abs(s.begin)
    ELSE IF IsSome(s.end) /\ Unwrap(s.end) < 0 THEN Abs(Unwrap(s.end))
    ELSE 0

C7_FifoBounded == Len(buf) <= WindowSize(slice)

C7_Witness ==
    /\ Len(buf) = WindowSize(slice)
    /\ WindowSize(slice) > 0
    /\ lines_processed > WindowSize(slice)

\* C8: once the source has reported a read failure on an item slice_input
\* consumed, the invocation has ended and returned that failure.
C8_ReadFailureAborts ==
    read_failures > 0 => (pc = "done" /\ failed_side = "read" /\ result = raised)

\* C9: when a write fails the invocation ends at once returning that failure,
\* the failing step and everything after it leave the sink and the source
\* untouched, and what the sink holds is a prefix of the failure-free output.
C9_WriteFailureAborts ==
    /\ [](failed_side = "write"
          => /\ pc = "done"
             /\ result \in IoErrors
             /\ IsPrefix(out, Selected(slice, input)))
    /\ [][(failed_side' = "write") => (out' = out /\ pos' = pos)]_vars

C9_Witness ==
    /\ failed_side = "write"
    /\ pc = "done"
    /\ Len(out) >= 1
    /\ Len(Selected(slice, input)) > Len(out)

\* C10 (as stated): the returned failure value tells the side, so a value
\* returned for a read failure is never one returned for a write failure.
ReadFailureValues == {ErrReturned(e) : e \in IoErrors}
WriteFailureValues == {ErrReturned(e) : e \in IoErrors}

RECURSIVE CrlfToLf(_)
CrlfToLf(b) ==
    IF b = <<>> THEN <<>>
    ELSE IF Len(b) >= 2 /\ b[1] = "CR" /\ b[2] = "LF"
         THEN <<"LF">> \o CrlfToLf(SubSeq(b, 3, Len(b)))
         ELSE <<b[1]>> \o CrlfToLf(Tail(b))

LfTerminated(b) == IF b = <<>> \/ b[Len(b)] = "LF" THEN b ELSE Append(b, "LF")

C11_WholeInputNormalized ==
    (Succeeded /\ IsSome(in_buf) /\ slice = WholeInput)
    => OutBytes(out) = LfTerminated(CrlfToLf(Unwrap(in_buf)))

C11_Witness ==
    /\ Succeeded
    /\ slice = WholeInput
    /\ first_out = None
    /\ in_buf = Some(<<"a", "CR", "LF", "a">>)
    /\ OutBytes(out) = <<"a", "LF", "a", "LF">>

\* C12: when the bytes a successful begin:end selection put in the sink are
\* sliced again with "0:", the second run puts exactly the same bytes in its
\* sink.
C12_ResliceIdempotent ==
    (Succeeded /\ IsSome(first_out)) => OutBytes(out) = Unwrap(first_out)

\* ---------------------------------------- the slice expression, as text
Text == Unwrap(slice_str)
ColonCount == Cardinality({i \in 1..Len(Text) : Text[i] = ":"})
ColonAt == CHOOSE i \in 1..Len(Text) : Text[i] = ":"
BeginPart == SubSeq(Text, 1, ColonAt - 1)
EndPart == SubSeq(Text, ColonAt + 1, Len(Text))

AllDigits(p) == p # <<>> /\ \A i \in 1..Len(p) : p[i] \in {"1", "9"}

\* The number a run of digits denotes.
RECURSIVE Decimal(_)
Decimal(p) ==
    IF p = <<>> THEN 0 ELSE 10 * Decimal(SubSeq(p, 1, Len(p) - 1)) + DigitValue(p[Len(p)])

\* An optional leading '-' followed by digits.
MinusDigits(p) == AllDigits(p) \/ (p # <<>> /\ p[1] = "-" /\ AllDigits(Tail(p)))

\* An optional leading '-' or '+' followed by digits.
SignDigits(p) == AllDigits(p) \/ (p # <<>> /\ p[1] \in {"-", "+"} /\ AllDigits(Tail(p)))

ValueOf(p) ==
    IF p[1] = "-" THEN -Decimal(Tail(p))
    ELSE IF p[1] = "+" THEN Decimal(Tail(p))
    ELSE Decimal(p)

\* A part str::parse::<isize> takes: sign, digits, value within isize.
IsizeText(p) == SignDigits(p) /\ ValueOf(p) \in ISIZE_MIN..ISIZE_MAX

ExpectedSlice ==
    [begin |-> IF BeginPart = <<>> THEN 0 ELSE ValueOf(BeginPart),
     end |-> IF EndPart = <<>> THEN None ELSE Some(ValueOf(EndPart))]

\* C13 (as stated): from_string succeeds exactly on the texts with one ':',
\* a non-empty part, and every non-empty part an optional '-' followed by
\* digits, and then returns the values of the parts.
C13_AcceptsMinusDigits ==
    pc = "parsed"
    => /\ (parse_error = "none")
          = /\ ColonCount = 1
            /\ (BeginPart # <<>> \/ EndPart # <<>>)
            /\ (BeginPart # <<>> => MinusDigits(BeginPart))
            /\ (EndPart # <<>> => MinusDigits(EndPart))
       /\ (parse_error = "none" => slice = ExpectedSlice)

\* C13 (amended): from_string succeeds exactly on the texts with one ':',
\* a non-empty part, and every non-empty part an optional '-' or '+'
\* followed by digits whose value is within isize, and then returns the
\* values of the parts.
C13_AcceptsIsizeText ==
    pc = "parsed"
    => /\ (parse_error = "none")
          = /\ ColonCount = 1
            /\ (BeginPart # <<>> \/ EndPart # <<>>)
            /\ (BeginPart # <<>> => IsizeText(BeginPart))
            /\ (EndPart # <<>> => IsizeText(EndPart))
       /\ (parse_error = "none" => slice = ExpectedSlice)

C13_Witness ==
    /\ pc = "parsed"
    /\ parse_error = "none"
    /\ Text = <<"+", "1", ":", "-", "9">>
    /\ slice = [begin |-> 1, end |-> Some(-9)]

\* C14: a rejected text yields one of four distinct errors, the first that
\* applies of: not exactly two parts; both parts empty; begin part present
\* and not an integer; end part present and not an integer.
ParseErrors ==
    <<"Invalid slice", "Slice cannot be empty", "Invalid slice starting point",
      "Invalid slice ending point">>

C14_ErrorOrder ==
    /\ Cardinality({ParseErrors[i] : i \in 1..4}) = 4
    /\ (pc = "parsed" /\ parse_error # "none")
       => parse_error =
            IF ColonCount # 1 THEN ParseErrors[1]
            ELSE IF BeginPart = <<>> /\ EndPart = <<>> THEN ParseErrors[2]
            ELSE IF BeginPart # <<>> /\ ~IsizeText(BeginPart) THEN ParseErrors[3]
            ELSE ParseErrors[4]

C14_Witness ==
    /\ pc = "parsed"
    /\ Text = <<"x", ":", "x">>
    /\ parse_error = "Invalid slice starting point"

\* C15: with end present and non-negative, slice_input never consumes more
\* than skip_count + stop_count + window_size items, which is max(begin, end)
\* for begin >= 0 and end + |begin| for begin < 0, and it returns, whether
\* the source holds more items or never ends; with end absent or negative a
\* run that returns Ok has consumed the whole source.
EndNonNegative == IsSome(slice.end) /\ Unwrap(slice.end) >= 0

ReadBound ==
    IF slice.begin >= 0 THEN Max(slice.begin, Unwrap(slice.end))
    ELSE Unwrap(slice.end) + Abs(slice.begin)

C15_ReadBound ==
    /\ [](EndNonNegative
          => /\ pos <= ReadBound
             /\ (pc # "start" => skip_count + stop_count + buf_size = ReadBound))
    /\ [](Succeeded /\ ~EndNonNegative => ~endless /\ pos = Len(input))
    /\ (EndNonNegative ~> pc = "done")

C15_Witness ==
    /\ pc = "done"
    /\ endless
    /\ EndNonNegative
    /\ slice.begin < 0
    /\ pos = ReadBound
    /\ pos > Len(input)

\* C20: with begin >= 0 and 0 <= end <= begin, slice_input takes no item from
\* the source, not even one of the skipped prefix, writes nothing, returns
\* Ok, and does return whatever the source would have done.
EndAtOrBeforeBegin == slice.begin >= 0 /\ EndNonNegative /\ Unwrap(slice.end) <= slice.begin

C20_NothingRead ==
    /\ [](EndAtOrBeforeBegin
          => /\ pos = 0
             /\ read_failures = 0
             /\ out = <<>>
             /\ (pc = "done" => result = "Ok"))
    /\ (EndAtOrBeforeBegin ~> pc = "done")

C20_Witness ==
    /\ Succeeded
    /\ EndAtOrBeforeBegin
    /\ slice.begin > 0
    /\ endless
    /\ ~input[1].ok

\* C16: with begin < 0 nothing is written while lines are being read: the
\* sink changes only in the flush after the loop, no item is taken from the
\* source once something was written, and a run that read up to its read
\* bound writes nothing at all.
C16_TrailingWritesLast ==
    /\ [](slice.begin < 0
          => /\ (out # <<>> => pc \in {"flush", "done"})
             /\ (lines_processed = stop_count + buf_size => out = <<>>))
    /\ [][slice.begin < 0
          => /\ (out' # out => pc = "flush")
             /\ (out # <<>> => pos' = pos)]_vars

C16_Witness ==
    /\ slice.begin < 0
    /\ pc = "flush"
    /\ Len(out) >= 1
    /\ buf # <<>>
    /\ pos > buf_size

\* C17: with begin >= 0, once k lines after the skipped prefix have been
\* processed, the sink holds exactly the first max(0, k - window_size) of
\* them, in order, and every line in the sink has at least window_size
\* lines read after it.
C17_DirectEager ==
    slice.begin >= 0
    => /\ out = Range(Texts(input), slice.begin,
                      slice.begin + Max(0, lines_processed - WindowSize(slice)))
       /\ (out # <<>> => pos >= slice.begin + Len(out) + WindowSize(slice))

C17_Witness ==
    /\ slice.begin >= 1
    /\ WindowSize(slice) >= 1
    /\ pc = "loop"
    /\ Len(out) >= 1
    /\ lines_processed = Len(out) + WindowSize(slice)
    /\ pos < N

\* C18: with begin < 0, after every processed line and when the loop has
\* ended, the FIFO holds exactly the last min(window_size, lines processed)
\* lines read, front to back in input order.
C18_FifoIsTail ==
    (slice.begin < 0 /\ pc \in {"loop", "next", "body", "trim"})
    => /\ buf = Range(Texts(input),
                      lines_processed - Min(WindowSize(slice), lines_processed),
                      lines_processed)
       /\ (pc \in {"loop", "trim"} => pos = lines_processed)

C18_Witness ==
    /\ slice.begin <= -2
    /\ pc = "trim"
    /\ lines_processed > WindowSize(slice)
    /\ Len(buf) = WindowSize(slice)

\* C19: for every begin and end of isize, the most negative one included,
\* the set-up runs without an arithmetic overflow and leaves window_size
\* the exact magnitude of the negative boundary, and neither
\* stop_count + window_size nor the trimming arithmetic leaves usize.
C19_NoOverflow ==
    /\ result \notin {"negate_overflow", "panic"}
    /\ (pc \notin {"start", "done"}
        => /\ buf_size = WindowSize(slice)
           /\ take_n \in 0..USIZE_MAX)
====
